---- MODULE Spec2Model ----
(***************************************************************************)
(* A model of the daily typing challenge of src/app.js (the revision of    *)
(* lines 362-978): the deterministic content scheduler, the session state  *)
(* machine driven by key events, and the per-language record store.        *)
(*                                                                         *)
(* Representation:                                                         *)
(*   - a 32-bit word is a pair <<hi, lo>> of 16-bit limbs;                 *)
(*   - a string whose characters are read (a PRNG seed) is the sequence of *)
(*     its UTF-16 code units; a passage is a TLA+ string;                  *)
(*   - times are integers: Date.now() in milliseconds, the timer text in   *)
(*     hundredths of a second, wpm in thousandths, a percentile in         *)
(*     hundredths of a percent;                                            *)
(*   - JavaScript's null startTime is 0 (it coerces to 0 in arithmetic and *)
(*     is falsy, as 0 is); undefined dailyQuotes is the empty sequence.    *)
(***************************************************************************)
EXTENDS Integers, Sequences, FiniteSets, TLC

(***************************************************************************)
(* State                                                                   *)
(***************************************************************************)
VARIABLES
    \* STATE
    language, stage, startTime, timerInterval, currentQuote, isFinished,
    totalCharsTyped, allQuotes, dailyQuotes,
    \* UI_ELEMENTS: timer.textContent, typingInput.value and .disabled,
    \* quoteDisplay.textContent
    timerText, inputValue, inputDisabled, quoteDisplay,
    \* localStorage: typingLanguage ("" when absent) and typingStats_<lang>
    typingLanguage, typingStats,
    \* the clock, and how far init() has come: "loading", "ready", "failed"
    now, initPc,
    \* history: saveRecord calls so far; what the last read of
    \* STATE.dailyQuotes in updateStageUI found; the passages updateStageUI
    \* has shown in this session; STATE.dailyQuotes and the clock at the
    \* session's resetGame; per language, the
    \* percentiles of the attempts saved since the entry was absent (ascending)
    saveCalls, lastRead, presented, sessionTriple, attempts,
    \* a run of getSentenceAtGlobalIndex, statement by statement: where it
    \* is ("idle", "shuffling"), its argument, the array `indices` and the loop
    \* variable i of getShuffledIndices, the variable h of the generator
    \* createSeededRandom returned last; history: the pool indices selected
    \* for the current deck, and the passage first returned for each stream
    \* position from 0 on
    schedPc, globalIndex, indices, loopI, prngH, drawn, stream,
    \* history of the runs of selectDailyQuotes taken statement by statement:
    \* the pairs of the KST calendar day (in days from the epoch date) and a
    \* stream position getSentenceAtGlobalIndex was called with on that day
    positions,
    \* what updateStatsUI rendered last (rankValue and the ranking list), and
    \* history: the error the last call of saveRecord or of updateStatsUI
    \* ended with, "none" when it returned
    statsShown, storeError

vars == << language, stage, startTime, timerInterval, currentQuote, isFinished,
           totalCharsTyped, allQuotes, dailyQuotes, timerText, inputValue,
           inputDisabled, quoteDisplay, typingLanguage, typingStats, now, initPc,
           saveCalls, lastRead, presented, sessionTriple, attempts, schedPc,
           globalIndex, indices, loopI, prngH, drawn, stream, positions,
           statsShown, storeError >>

pageVars == << language, stage, startTime, timerInterval, currentQuote, isFinished,
               totalCharsTyped, allQuotes, dailyQuotes, timerText, inputValue,
               inputDisabled, quoteDisplay, initPc >>

sessionHistory == << lastRead, presented, sessionTriple >>

storeView == << statsShown, storeError >>

schedVars == << schedPc, globalIndex, indices, loopI, prngH, drawn, stream,
               positions >>

(***************************************************************************)
(* 32-bit arithmetic of createSeededRandom                                 *)
(***************************************************************************)
TwoTo16 == 65536

\* 2^n for 0 <= n <= 16, at Pow2Table[n + 1]
Pow2Table ==
    << 1, 2, 4, 8, 16, 32, 64, 128, 256, 512, 1024, 2048, 4096, 8192, 16384,
       32768, 65536 >>

Pow2(n) == Pow2Table[n + 1]

\* bit k of a ^ b
XorBit(a, b, k) == ((a \div Pow2(k)) + (b \div Pow2(k))) % 2

\* a ^ b for 0 <= a, b <= 15
XorNibble(a, b) ==
    XorBit(a, b, 0) + (2 * XorBit(a, b, 1)) + (4 * XorBit(a, b, 2))
        + (8 * XorBit(a, b, 3))

\* XorNibble tabulated: a ^ b at XorTable[a + 1][b + 1]
XorTable ==
    SubSeq([a \in 1..16 |->
              SubSeq([b \in 1..16 |-> XorNibble(a - 1, b - 1)], 1, 16)], 1, 16)

\* hexadecimal digit d (0 is the lowest) of a 16-bit limb, plus one
Hex(a, d) == ((a \div Pow2(4 * d)) % 16) + 1

\* a ^ b on 16-bit limbs
Xor16(a, b) ==
    XorTable[Hex(a, 0)][Hex(b, 0)] + (16 * XorTable[Hex(a, 1)][Hex(b, 1)])
        + (256 * XorTable[Hex(a, 2)][Hex(b, 2)])
        + (4096 * XorTable[Hex(a, 3)][Hex(b, 3)])

\* bit k of a | b
OrBit(a, b, k) ==
    IF ((a \div Pow2(k)) % 2) + ((b \div Pow2(k)) % 2) > 0 THEN 1 ELSE 0

\* a | b for 0 <= a, b <= 15
OrNibble(a, b) ==
    OrBit(a, b, 0) + (2 * OrBit(a, b, 1)) + (4 * OrBit(a, b, 2))
        + (8 * OrBit(a, b, 3))

\* OrNibble tabulated: a | b at OrTable[a + 1][b + 1]
OrTable ==
    SubSeq([a \in 1..16 |->
              SubSeq([b \in 1..16 |-> OrNibble(a - 1, b - 1)], 1, 16)], 1, 16)

\* a | b on 16-bit limbs
Or16(a, b) ==
    OrTable[Hex(a, 0)][Hex(b, 0)] + (16 * OrTable[Hex(a, 1)][Hex(b, 1)])
        + (256 * OrTable[Hex(a, 2)][Hex(b, 2)])
        + (4096 * OrTable[Hex(a, 3)][Hex(b, 3)])

\* the 32-bit product of two 16-bit limbs, as <<hi, lo>>
Mul16(a, b) ==
    LET p == a * (b \div 256)
        q == a * (b % 256)
    IN  << ((p + (q \div 256)) \div 256) % TwoTo16,
           (((p % 256) * 256) + q) % TwoTo16 >>

XorW(x, y) == << Xor16(x[1], y[1]), Xor16(x[2], y[2]) >>

OrW(x, y) == << Or16(x[1], y[1]), Or16(x[2], y[2]) >>

\* x + y modulo 2^32
AddW(x, y) ==
    LET lo == x[2] + y[2]
    IN  << (x[1] + y[1] + (lo \div TwoTo16)) % TwoTo16, lo % TwoTo16 >>

\* x >>> n, for 0 < n < 16
ShrW(x, n) ==
    << x[1] \div Pow2(n),
       (x[2] \div Pow2(n)) + ((x[1] % Pow2(n)) * Pow2(16 - n)) >>

\* Math.imul(x, y): the low 32 bits of the product
Imul(x, y) ==
    LET ll == Mul16(x[2], y[2])
        hl == Mul16(x[1], y[2])
        lh == Mul16(x[2], y[1])
    IN  << (ll[1] + hl[2] + lh[2]) % TwoTo16, ll[2] >>

\* a small non-negative integer as a word
WordOf(n) == << 0, n >>

IsWord(w) == w[1] \in 0..65535 /\ w[2] \in 0..65535

(***************************************************************************)
(* createSeededRandom (Mulberry32 over a hashed seed string)               *)
(***************************************************************************)
\* 0xdeadbeef
HashInit == << 57005, 48879 >>

\* 2654435761 = 0x9E3779B1
HashMul == << 40503, 31153 >>

\* 0x6D2B79F5
StepInc == << 27947, 31221 >>

\* the for loop of createSeededRandom: h after the characters seedStr[i..]
\* (the CASE has TLC compute each h before it goes on to the next character)
RECURSIVE HashFrom(_, _, _)
HashFrom(h, seedStr, i) ==
    IF i > Len(seedStr) THEN h
    ELSE LET hNext == Imul(XorW(h, WordOf(seedStr[i])), HashMul)
         IN  CASE IsWord(hNext) -> HashFrom(hNext, seedStr, i + 1)

\* a generator that goes on from the h of the generator made before it
createSeededRandomShared(seedStr) == HashFrom(prngH, seedStr, 1)

\* the generator's initial state h
createSeededRandom(seedStr) == HashFrom(HashInit, seedStr, 1)

\* one call of the returned closure on state h: the new h and the 32-bit
\* numerator u of the returned value u / 4294967296
PrngNext(h) ==
    LET h1 == AddW(h, StepInc)
        t1 == Imul(XorW(h1, ShrW(h1, 15)), OrW(WordOf(1), h1))
        t2 == XorW(AddW(t1, Imul(XorW(t1, ShrW(t1, 7)), OrW(WordOf(61), t1))), t1)
    IN  [h |-> h1, u |-> XorW(t2, ShrW(t2, 14))]

\* Math.floor(prng() * (i + 1)) for the value u / 2^32, with m = i + 1
ScaleIndex(u, m) == ((u[1] * m) + ((u[2] * m) \div TwoTo16)) \div TwoTo16

(***************************************************************************)
(* getShuffledIndices: Fisher-Yates over 0 .. length-1                     *)
(***************************************************************************)
\* indices[i] = indices[j] alone
SwapAtOverwrite(arr, i, j) == [arr EXCEPT ![i + 1] = arr[j + 1]]

\* [indices[i], indices[j]] = [indices[j], indices[i]]  (1-based sequence
\* holding the 0-based array)
SwapAt(arr, i, j) ==
    [arr EXCEPT ![i + 1] = arr[j + 1], ![j + 1] = arr[i + 1]]

\* the loop body for index i, with u the numerator of the value prng() returns
ShuffleStep(arr, i, u) == SwapAt(arr, i, ScaleIndex(u, i + 1))

\* the iterations i, i-1, .., 1 of the loop, from PRNG state h
RECURSIVE ShuffleFrom(_, _, _)
ShuffleFrom(arr, h, i) ==
    IF i <= 0 THEN arr
    ELSE LET r == PrngNext(h)
             swapped == ShuffleStep(arr, i, r.u)
         IN  CASE Len(swapped) = Len(arr) /\ IsWord(r.h) ->
                    ShuffleFrom(swapped, r.h, i - 1)

\* Array.from({ length }, (_, i) => i)
RECURSIVE IndexArray(_)
IndexArray(length) ==
    IF length <= 0 THEN << >> ELSE Append(IndexArray(length - 1), length - 1)

getShuffledIndices(length, seed) ==
    ShuffleFrom(IndexArray(length), createSeededRandom(seed), length - 1)

(***************************************************************************)
(* Bounds of the model                                                     *)
(***************************************************************************)
\* clock advances of one page history (the clock takes MaxTicks + 1 values)
MaxTicks == 1

\* saveRecord calls of one behaviour of the application
MaxPlays == 1

\* saveRecord calls of one behaviour of the record store
MaxAttempts == 6

\* pool sizes and deck numbers of the scheduler runs
MaxLen == 4

MaxDeck == 1

\* whole days the scheduler's clock moves on
MaxDay == 1

(***************************************************************************)
(* Constants of the program and its environment                            *)
(***************************************************************************)
TOTAL_STAGES == 3

\* the languages of LANGUAGES the model runs
Languages == {"en", "ko"}

\* the code units of a language code, as `${STATE.language}` contributes them
LangCodes(lang) ==
    CASE lang = "en" -> << 101, 110 >>
      [] lang = "ko" -> << 107, 111 >>
      [] lang = "ja" -> << 106, 97 >>

\* "_deck_"
DeckInfix == << 95, 100, 101, 99, 107, 95 >>

\* the decimal digits of a non-negative integer, as `${deckIndex}` prints it
RECURSIVE DecimalCodes(_)
DecimalCodes(n) ==
    IF n < 10 THEN << 48 + n >>
    ELSE Append(DecimalCodes(n \div 10), 48 + (n % 10))

\* `${STATE.language}_deck_${deckIndex}`
DeckSeed(lang, deckIndex) == LangCodes(lang) \o DeckInfix \o DecimalCodes(deckIndex)

\* the pool sentences.<lang>.json provides (quotesData.sentences || [])
PoolOf(lang) ==
    CASE lang = "en" -> << "ab", "c", "", "de" >>
      [] lang = "ko" -> << "f", "gh", "" >>
      [] lang = "ja" -> << >>

Placeholder == "No quotes available."

\* STATE.dailyQuotes before selectDailyQuotes has run
Undefined == << >>

\* milliseconds of a day, and of one advance of the model's clock
DayMs == 86400000

ClockStep == 1000

\* The clock `now` is Date.now() shifted to count from the KST midnight that
\* begins 2024-12-31, the day before the epoch date, so it is positive.
\* toLocaleDateString("en-CA", {timeZone: "Asia/Seoul"}), new Date(kstString)
\* and today - epoch, in days
KstDiffDays(t) == (t \div DayMs) - 1

\* the first clock value: one ClockStep before the KST midnight ending the
\* epoch date
FirstNow == (2 * DayMs) - ClockStep

LastNow == FirstNow + (MaxTicks * ClockStep)

(***************************************************************************)
(* Daily scheduler                                                         *)
(***************************************************************************)
\* the difference in days without the fallback
getDaysSinceNoFallback(t) == KstDiffDays(t)

getDaysSinceFixedEpoch(t) ==
    LET diffDays == KstDiffDays(t)
    IN  IF diffDays >= 0 THEN diffDays ELSE 0

\* a deck index that is the stream position itself
DeckIndexPerPosition(total, g) == g

\* Math.floor(globalIndex / total)
DeckIndexOf(total, g) == g \div total

\* globalIndex % total
LocalIndexOf(total, g) == g % total

\* the pool index getSentenceAtGlobalIndex selects
PoolIndexAt(total, lang, g) ==
    LET deckIndex == DeckIndexOf(total, g)
        localIndex == LocalIndexOf(total, g)
        shuffledIndices == getShuffledIndices(total, DeckSeed(lang, deckIndex))
    IN  shuffledIndices[localIndex + 1]

getSentenceAtGlobalIndex(quotes, lang, g) ==
    quotes[PoolIndexAt(Len(quotes), lang, g) + 1]

\* a guard that lets every pool through
PoolIsEmptyNever(quotes) == FALSE

\* !STATE.allQuotes || STATE.allQuotes.length === 0  (an undefined pool is
\* the empty sequence)
PoolIsEmpty(quotes) == Len(quotes) = 0

\* the value selectDailyQuotes leaves in STATE.dailyQuotes at clock value t
selectDailyQuotes(quotes, lang, t) ==
    IF PoolIsEmpty(quotes) THEN << Placeholder, Placeholder, Placeholder >>
    ELSE LET globalStartIndex == getDaysSinceFixedEpoch(t) * 3
         IN  << getSentenceAtGlobalIndex(quotes, lang, globalStartIndex),
                getSentenceAtGlobalIndex(quotes, lang, globalStartIndex + 1),
                getSentenceAtGlobalIndex(quotes, lang, globalStartIndex + 2) >>

(***************************************************************************)
(* Skill model.  Numbers are fixed point: Scale stands for 1.0 inside Erf, *)
(* a percentile is in hundredths of a percent (0.01 is 1, 99.9 is 9990),   *)
(* wpm in thousandths.  The non-finite values of JavaScript and JSON's     *)
(* null are negative sentinels; no finite value of the model is negative.  *)
(***************************************************************************)
NaN == -1

Infinity == -2

JsonNull == -3

Scale == 10000

Abs(v) == IF v < 0 THEN -v ELSE v

\* Math.exp(-n) for whole n, scaled
ExpWhole(n) ==
    CASE n = 0 -> 10000 [] n = 1 -> 3679 [] n = 2 -> 1353 [] n = 3 -> 498
      [] n = 4 -> 183 [] n = 5 -> 67 [] n = 6 -> 25 [] n = 7 -> 9
      [] n = 8 -> 3 [] n = 9 -> 1 [] OTHER -> 0

\* the series of exp(-f / Scale) after term k-1, for 0 <= f < Scale
RECURSIVE ExpSeries(_, _, _, _)
ExpSeries(f, k, term, sum) ==
    IF k > 9 THEN sum
    ELSE LET next == (term * f) \div (Scale * k)
         IN  ExpSeries(f, k + 1, next, IF k % 2 = 1 THEN sum - next ELSE sum + next)

\* Math.exp(-z / Scale), scaled
ExpNeg(z) == (ExpWhole(z \div Scale) * ExpSeries(z % Scale, 1, Scale, Scale)) \div Scale

\* Erf(x) for x = xs / Scale (Abramowitz-Stegun 7.1.26)
Erf(xs) ==
    LET a1 == 2548
        a2 == -2845
        a3 == 14214
        a4 == -14532
        a5 == 10614
        p == 3276
        sign == IF xs < 0 THEN -1 ELSE 1
        ax == Abs(xs)
        t == (Scale * Scale) \div (Scale + ((p * ax) \div Scale))
        h4 == ((a5 * t) \div Scale) + a4
        h3 == ((h4 * t) \div Scale) + a3
        h2 == ((h3 * t) \div Scale) + a2
        h1 == ((h2 * t) \div Scale) + a1
        poly == (h1 * t) \div Scale
        y == IF ax >= 4 * Scale THEN Scale
             ELSE Scale - ((poly * ExpNeg((ax * ax) \div Scale)) \div Scale)
    IN  sign * y

\* the sign of x - mean dropped
calculateNormalCDFFolded(wpm) ==
    LET d == Abs(wpm - 40000)
        erf == IF d >= 100000 THEN Scale ELSE Erf((d * 10000) \div 21213)
    IN  (Scale + erf) \div 2

\* calculateNormalCDF(wpm, 40, 15), scaled, for a finite wpm in thousandths;
\* stdDev * Math.sqrt(2) is 21.213
calculateNormalCDF(wpm) ==
    LET d == wpm - 40000
        erf == IF d >= 100000 THEN Scale
               ELSE IF d <= -100000 THEN -Scale
               ELSE IF d >= 0 THEN Erf((d * 10000) \div 21213)
               ELSE Erf(-((Abs(d) * 10000) \div 21213))
    IN  (Scale + erf) \div 2

\* the bounds of the clamp: 0.01 and 99.9
MinPercentile == 1

MaxPercentile == 9990

\* parseFloat(getPercentile(wpm))
getPercentile(wpm) ==
    IF wpm = NaN THEN NaN
    ELSE LET cdf == IF wpm = Infinity THEN Scale ELSE calculateNormalCDF(wpm)
             topPercent == Scale - cdf
         IN  IF topPercent < MinPercentile THEN MinPercentile
             ELSE IF topPercent > MaxPercentile THEN MaxPercentile
             ELSE topPercent

\* rec.percentile.toFixed(1), in tenths of a percent
ToFixed1(percentile) == (percentile + 5) \div 10

\* The value at the mean, exactly.  Nano stands for 1.0; the constants of
\* Erf are whole numbers of 1e-9.  (The doubles of the code differ from the
\* decimal values below by less than 1e-15.)
Nano == 1000000000

\* Erf(0) with the constants rounded to eight decimals
ErfOfZeroEightDigits ==
    10 * (100000000
            - ((((106140543 + (-145315203)) + 142141374) + (-28449674)) + 25482959))

\* Erf(0): sign is 1, t = 1.0 / (1.0 + p * 0) is 1 and Math.exp(-0) is 1, so
\* the Horner form adds the constants up
ErfOfZero ==
    LET a1 == 254829592
        a2 == -284496736
        a3 == 1421413741
        a4 == -1453152027
        a5 == 1061405429
    IN  Nano - ((((a5 + a4) + a3) + a2) + a1)

\* calculateNormalCDF(40, 40, 15) doubled: 1 + Erf((40 - 40) / (15 * sqrt(2)))
TwiceCDFAtMean == Nano + ErfOfZero

\* (1 - cdf) * 100 for wpm = 40, in units of 5e-8 percent: 50 percent is Nano
TopPercentAtMean == (2 * Nano) - TwiceCDFAtMean

\* elapsed.toFixed(2) for elapsed = ms / 1000, in hundredths of a second
ToFixed2(ms) == (ms + 5) \div 10

\* (STATE.totalCharsTyped / 5) / (finalTime / 60), finalTime in hundredths
WpmOf(chars, finalTime) ==
    IF finalTime = 0 THEN (IF chars = 0 THEN NaN ELSE Infinity)
    ELSE (1200000 * chars) \div finalTime

(***************************************************************************)
(* Record store: the value under typingStats_<language>                    *)
(***************************************************************************)
\* A stored value is a record: `present` tells whether the key exists and
\* `form` what its text parses to: "object" (a JSON object, playCount being
\* UndefinedValue and hasRecords FALSE for a property it lacks), "falsy"
\* (null, 0, false or ""), "array" (an array), "number" (a non-zero number)
\* or "unparseable" (no JSON text).  No value modelled has a bestPercentile
\* property.

\* a property the parsed value does not have
UndefinedValue == -4

\* localStorage.getItem(key) === null
AbsentEntry ==
    [present |-> FALSE, form |-> "absent", playCount |-> 0, hasRecords |-> TRUE,
     records |-> << >>]

\* the forms JSON.parse returns a value for
ParsedForms == { "absent", "object", "falsy", "array", "number" }

\* JSON.parse(localStorage.getItem(key)) || { playCount: 0, records: [] },
\* for a value JSON.parse returns: the playCount and records properties read
\* from it
LoadData(entry) ==
    IF entry.form = "object"
    THEN [playCount |-> entry.playCount, hasRecords |-> entry.hasRecords,
          records |-> entry.records]
    ELSE IF entry.form \in { "absent", "falsy" }
    THEN [playCount |-> 0, hasRecords |-> TRUE, records |-> << >>]
    ELSE [playCount |-> UndefinedValue, hasRecords |-> FALSE, records |-> << >>]

\* v || 0
OrZero(v) == IF v \in { UndefinedValue, JsonNull, NaN } THEN 0 ELSE v

\* data.playCount + 1 with no default: undefined + 1 is NaN
NextPlayCountUndefaulted(data) ==
    IF data.playCount = UndefinedValue THEN NaN ELSE data.playCount + 1

\* if (!data.records) data.records = []
RecordsOrEmpty(data) == IF data.hasRecords THEN data.records ELSE << >>

\* a count that stops at the length the list is cut to
NextPlayCountCapped(data) ==
    IF data.playCount < 5 THEN data.playCount + 1 ELSE data.playCount

\* data.playCount = (data.playCount || 0) + 1
NextPlayCount(data) == OrZero(data.playCount) + 1

\* a number as an operand of the subtraction in the comparator (null is 0)
ToNumber(v) == IF v = JsonNull THEN 0 ELSE v

\* a comparator under which a record also goes before its equals
ComparesBeforeOrTies(a, b) ==
    /\ a.percentile # NaN
    /\ b.percentile # NaN
    /\ ToNumber(a.percentile) <= ToNumber(b.percentile)

\* (a, b) => a.percentile - b.percentile is negative; a NaN result counts
\* as +0 in Array.prototype.sort
ComparesBefore(a, b) ==
    /\ a.percentile # NaN
    /\ b.percentile # NaN
    /\ ToNumber(a.percentile) < ToNumber(b.percentile)

\* r placed into the sorted sequence s, after the elements it does not
\* compare before (the sort is stable)
RECURSIVE InsertSorted(_, _)
InsertSorted(s, r) ==
    IF s = << >> THEN << r >>
    ELSE IF ComparesBefore(r, s[Len(s)])
         THEN Append(InsertSorted(SubSeq(s, 1, Len(s) - 1), r), s[Len(s)])
         ELSE Append(s, r)

\* the array left in insertion order
SortRecordsSkipped(records) == records

\* data.records.sort((a, b) => a.percentile - b.percentile)
RECURSIVE SortRecords(_)
SortRecords(records) ==
    IF records = << >> THEN << >>
    ELSE InsertSorted(SortRecords(SubSeq(records, 1, Len(records) - 1)),
                      records[Len(records)])

\* slice(-5): the last five
KeepLast(records) ==
    IF Len(records) > 5 THEN SubSeq(records, Len(records) - 4, Len(records))
    ELSE records

\* if (data.records.length > 5) data.records = data.records.slice(0, 5)
KeepTop(records) == IF Len(records) > 5 THEN SubSeq(records, 1, 5) ELSE records

\* a number through JSON.stringify and JSON.parse
JsonNumber(v) == IF v = NaN \/ v = Infinity THEN JsonNull ELSE v

JsonRecord(r) ==
    [playIndex |-> JsonNumber(r.playIndex), percentile |-> JsonNumber(r.percentile),
     wpm |-> JsonNumber(r.wpm), duration |-> r.duration, timestamp |-> r.timestamp]

\* the records array through JSON.stringify and JSON.parse
RECURSIVE JsonRecords(_)
JsonRecords(records) ==
    IF records = << >> THEN << >>
    ELSE Append(JsonRecords(SubSeq(records, 1, Len(records) - 1)),
                JsonRecord(records[Len(records)]))

\* the percentile saveRecord computes from STATE.totalCharsTyped and the
\* timer text
AttemptPercentile(chars, finalTime) == getPercentile(WpmOf(chars, finalTime))

\* the value saveRecord writes under the key, from the value it reads, when
\* it reaches the write; JSON.stringify of an array leaves out the playCount
\* and records properties set on it
saveRecord(entry, chars, finalTime, t) ==
    LET wpm == WpmOf(chars, finalTime)
        percentileNum == getPercentile(wpm)
        data == LoadData(entry)
        playCount == NextPlayCount(data)
        newRecord == [playIndex |-> playCount, percentile |-> percentileNum,
                      wpm |-> wpm, duration |-> finalTime, timestamp |-> t]
        records == KeepTop(SortRecords(Append(RecordsOrEmpty(data), newRecord)))
    IN  IF entry.form = "array" THEN entry
        ELSE [present |-> TRUE, form |-> "object",
              playCount |-> JsonNumber(playCount), hasRecords |-> TRUE,
              records |-> JsonRecords(records)]

\* the error saveRecord ends with, "none" when it returns: JSON.parse throws
\* a SyntaxError, push on the undefined records property of a number a
\* TypeError, and setItem a QuotaExceededError when the value is not stored
SaveError(entry, written) ==
    IF entry.form = "unparseable" THEN "SyntaxError"
    ELSE IF entry.form = "number" THEN "TypeError"
    ELSE IF ~written THEN "QuotaExceededError"
    ELSE "none"

\* the error updateStatsUI ends with, "none" when it returns
StatsError(entry) == IF entry.form = "unparseable" THEN "SyntaxError" ELSE "none"

\* bestPercentile < 0.1 ? "<0.1" : bestPercentile.toFixed(1): the text in
\* tenths of a percent, 0 standing for "<0.1" (null compares as 0)
DisplayPercent(percentile) ==
    IF ToNumber(percentile) < 10 THEN 0 ELSE ToFixed1(percentile)

\* the row of renderRankingList for a record: the time of the attempt, or
\* its play index when the duration is 0, and its percentile
RankingRow(rec) ==
    [time |-> IF rec.duration # 0 THEN << "time", rec.duration >>
              ELSE << "clear", rec.playIndex >>,
     percent |-> DisplayPercent(rec.percentile)]

\* nothing rendered yet: rankValue is "-" and the list has no row
NoStats == [rank |-> << >>, list |-> << >>]

\* what updateStatsUI renders for the stored value: rankValue (no element
\* for "-") and the rows of the ranking list
StatsOf(entry) ==
    LET records == RecordsOrEmpty(LoadData(entry))
    IN  [rank |-> IF records # << >> /\ records[1].percentile # JsonNull
                  THEN << DisplayPercent(records[1].percentile) >>
                  ELSE << >>,
         list |-> [i \in 1..Len(records) |-> RankingRow(records[i])]]

\* updateStatsUI() with the value under the key of STATE.language
updateStatsUI(entry) ==
    /\ storeError' = StatsError(entry)
    /\ statsShown' = IF StatsError(entry) = "none" THEN StatsOf(entry) ELSE statsShown

(***************************************************************************)
(* Values of the state                                                     *)
(***************************************************************************)
\* STATE.startTime = null
NullTime == 0

\* a text that equals no passage
WrongText == "x"

\* STATE.ui.completed || "Done!"
DoneText == "Done!"

\* isKorean ? 'ko' : 'en', for the navigator.languages of the model's
\* browser, which lists no Korean locale
DetectedLanguages == {"en"}

\* a percentile placed into an ascending sequence of percentiles
RECURSIVE InsertAscending(_, _)
InsertAscending(s, v) ==
    IF s = << >> THEN << v >>
    ELSE IF v < s[Len(s)]
         THEN Append(InsertAscending(SubSeq(s, 1, Len(s) - 1), v), s[Len(s)])
         ELSE Append(s, v)

(***************************************************************************)
(* Page load: the state the script's top level leaves when init() awaits   *)
(* loadResources                                                          *)
(***************************************************************************)
\* loadLanguagePreference
PreferredLanguages(stored) ==
    IF stored \in Languages THEN {stored} ELSE DetectedLanguages

\* every variable but STATE.language, STATE.allQuotes and the values under
\* the typingStats_<lang> keys
InitButStore ==
    /\ typingLanguage = ""
    /\ stage = 0
    /\ startTime = NullTime
    /\ timerInterval = FALSE
    /\ currentQuote = ""
    /\ isFinished = FALSE
    /\ totalCharsTyped = 0
    /\ dailyQuotes = Undefined
    /\ timerText = 0
    /\ inputValue = ""
    /\ inputDisabled = FALSE
    /\ quoteDisplay = ""
    /\ now = FirstNow
    /\ initPc = "loading"
    /\ saveCalls = 0
    /\ lastRead = "none"
    /\ presented = << >>
    /\ sessionTriple = Undefined
    /\ attempts = [l \in Languages |-> << >>]
    /\ schedPc = "idle"
    /\ globalIndex = 0
    /\ indices = << >>
    /\ loopI = 0
    /\ prngH = << 0, 0 >>
    /\ drawn = << >>
    /\ stream = << >>
    /\ positions = { }
    /\ statsShown = NoStats
    /\ storeError = "none"

\* every variable but STATE.language and STATE.allQuotes, no typingStats_<lang>
\* key being stored
InitRest ==
    /\ InitButStore
    /\ typingStats = [l \in Languages |-> AbsentEntry]

Init ==
    /\ InitRest
    /\ language \in PreferredLanguages(typingLanguage)
    /\ allQuotes = << >>

\* location.reload(): a new page over the same localStorage
Reload(stored) ==
    /\ typingLanguage' = stored
    /\ language' \in PreferredLanguages(stored)
    /\ stage' = 0
    /\ startTime' = NullTime
    /\ timerInterval' = FALSE
    /\ currentQuote' = ""
    /\ isFinished' = FALSE
    /\ totalCharsTyped' = 0
    /\ allQuotes' = << >>
    /\ dailyQuotes' = Undefined
    /\ timerText' = 0
    /\ inputValue' = ""
    /\ inputDisabled' = FALSE
    /\ quoteDisplay' = ""
    /\ initPc' = "loading"
    /\ lastRead' = "none"
    /\ presented' = << >>
    /\ sessionTriple' = Undefined
    /\ statsShown' = NoStats
    /\ storeError' = "none"
    /\ UNCHANGED << typingStats, now, saveCalls, attempts >>
    /\ UNCHANGED schedVars

(***************************************************************************)
(* Game logic                                                              *)
(***************************************************************************)
\* a read that selects again for the day of the read, from the pool the page
\* loads, in place of the stored triple
ReadTodaysQuote(dq, s) == selectDailyQuotes(PoolOf(language), language, now)[s + 1]

\* STATE.dailyQuotes[STATE.stage]
ReadDailyQuote(dq, s) == dq[s + 1]

\* updateStageUI with STATE.dailyQuotes = dq, STATE.stage = s and isFinished
\* false; `shown` and `typed` are the passages shown and the input's value
\* before it.  Reading an index of undefined throws; the statements after
\* the read do not run.
updateStageUI(dq, s, shown, typed) ==
    IF dq = Undefined
    THEN /\ lastRead' = "undefined"
         /\ presented' = shown
         /\ inputValue' = typed
         /\ UNCHANGED << currentQuote, quoteDisplay >>
    ELSE /\ lastRead' = "populated"
         /\ currentQuote' = ReadDailyQuote(dq, s)
         /\ quoteDisplay' = ReadDailyQuote(dq, s)
         /\ presented' = Append(shown, ReadDailyQuote(dq, s))
         /\ inputValue' = ""

\* resetGame that leaves STATE.totalCharsTyped as it is
resetGameKeepsCount(dq) ==
    /\ stage' = 0
    /\ startTime' = NullTime
    /\ isFinished' = FALSE
    /\ totalCharsTyped' = totalCharsTyped
    /\ timerInterval' = FALSE
    /\ timerText' = 0
    /\ inputDisabled' = FALSE
    /\ sessionTriple' = dq
    /\ updateStageUI(dq, 0, << >>, "")

\* resetGame with STATE.dailyQuotes = dq
resetGame(dq) ==
    /\ stage' = 0
    /\ startTime' = NullTime
    /\ isFinished' = FALSE
    /\ totalCharsTyped' = 0
    /\ timerInterval' = FALSE
    /\ timerText' = 0
    /\ inputDisabled' = FALSE
    /\ sessionTriple' = dq
    /\ updateStageUI(dq, 0, << >>, "")

\* loadResources succeeds; init goes on to resetGame and updateStatsUI
LoadSucceeds ==
    /\ initPc = "loading"
    /\ initPc' = "ready"
    /\ allQuotes' = PoolOf(language)
    /\ dailyQuotes' = selectDailyQuotes(PoolOf(language), language, now)
    /\ resetGame(dailyQuotes')
    /\ updateStatsUI(typingStats[language])
    /\ UNCHANGED << language, typingLanguage, typingStats, now, saveCalls, attempts >>
    /\ UNCHANGED schedVars

\* a fetch or its json() rejects: the catch block reports it, and init goes
\* on to resetGame all the same
LoadFails ==
    /\ initPc = "loading"
    /\ initPc' = "failed"
    /\ resetGame(dailyQuotes)
    /\ UNCHANGED << language, allQuotes, dailyQuotes, typingLanguage, typingStats,
                    now, saveCalls, attempts,
                    statsShown, storeError >>
    /\ UNCHANGED schedVars

\* the click listener of restartBtn
RestartClick ==
    /\ resetGame(dailyQuotes)
    /\ UNCHANGED << language, allQuotes, dailyQuotes, typingLanguage, typingStats,
                    now, initPc, saveCalls, attempts,
                    statsShown, storeError >>
    /\ UNCHANGED schedVars

\* the condition under which handleInput calls startTimer, for the value v
StartsTimer(v) == stage = 0 /\ startTime = NullTime /\ Len(v) > 0

\* the ranking rendered whether or not saveRecord returned
ShownAfterSaveAlways(err, saved, shown) == StatsOf(saved)

\* updateStatsUI is reached, through finishGame, only when saveRecord
\* returned: the ranking shown after the save that ended with err, `saved`
\* being the value saveRecord was to write and `shown` the ranking before
ShownAfterSave(err, saved, shown) == IF err = "none" THEN StatsOf(saved) ELSE shown

\* STATE.isFinished = true, stopTimer, saveRecord and finishGame, the timer
\* text being finalTime, STATE.totalCharsTyped total and the input's value
\* typed; `written` tells whether localStorage.setItem stores the value.  An
\* error of saveRecord leaves validateSubmission before finishGame.
CompleteWith(total, finalTime, typed, written) ==
    LET err == SaveError(typingStats[language], written)
        saved == saveRecord(typingStats[language], total, finalTime, now)
    IN  /\ isFinished' = TRUE
        /\ timerInterval' = FALSE
        /\ timerText' = finalTime
        /\ saveCalls' = saveCalls + 1
        /\ storeError' = err
        /\ statsShown' = ShownAfterSave(err, saved, statsShown)
        /\ IF err = "none"
           THEN /\ typingStats' = [typingStats EXCEPT ![language] = saved]
                /\ attempts' = [attempts EXCEPT
                                  ![language] = InsertAscending(@,
                                                   AttemptPercentile(total, finalTime))]
                /\ quoteDisplay' = DoneText
                /\ inputDisabled' = TRUE
                /\ inputValue' = ""
           ELSE /\ inputValue' = typed
                /\ UNCHANGED << typingStats, attempts, quoteDisplay, inputDisabled >>

\* the timer text left as the last tick wrote it
stopTimerKeepsText(st) == timerText

\* stopTimer() with STATE.startTime = st: the text it writes to the timer,
\* elapsed.toFixed(2) for elapsed = (Date.now() - STATE.startTime) / 1000
stopTimer(st) == ToFixed2(now - st)

\* the completion of validateSubmission after the third correct submission;
\* st is STATE.startTime, total STATE.totalCharsTyped and v the input's
\* value; the store has room for the value
CompleteSession(st, total, v) ==
    /\ saveCalls < MaxPlays
    /\ startTime' = st
    /\ CompleteWith(total, stopTimer(st), v, TRUE)
    /\ UNCHANGED << currentQuote, lastRead, presented >>

\* validateSubmission finishing one stage early (>= TOTAL_STAGES - 1)
validateSubmissionEarly(v, st, ti) ==
    IF v = currentQuote
    THEN /\ totalCharsTyped' = totalCharsTyped + Len(v)
         /\ stage' = stage + 1
         /\ IF stage + 1 >= TOTAL_STAGES - 1
            THEN CompleteSession(st, totalCharsTyped + Len(v), v)
            ELSE /\ startTime' = st
                 /\ timerInterval' = ti
                 /\ updateStageUI(dailyQuotes, stage + 1, presented, v)
                 /\ UNCHANGED << isFinished, timerText, inputDisabled, typingStats,
                                 saveCalls, attempts,
                                 statsShown, storeError >>
    ELSE /\ startTime' = st
         /\ timerInterval' = ti
         /\ inputValue' = v
         /\ UNCHANGED << stage, isFinished, totalCharsTyped, currentQuote, timerText,
                         inputDisabled, quoteDisplay, typingStats, saveCalls,
                         lastRead, presented, attempts,
                         statsShown, storeError >>

\* validateSubmission adding the length of a rejected input to the count
validateSubmissionCountsAll(v, st, ti) ==
    IF v = currentQuote
    THEN /\ totalCharsTyped' = totalCharsTyped + Len(v)
         /\ stage' = stage + 1
         /\ IF stage + 1 >= TOTAL_STAGES
            THEN CompleteSession(st, totalCharsTyped + Len(v), v)
            ELSE /\ startTime' = st
                 /\ timerInterval' = ti
                 /\ updateStageUI(dailyQuotes, stage + 1, presented, v)
                 /\ UNCHANGED << isFinished, timerText, inputDisabled, typingStats,
                                 saveCalls, attempts, statsShown, storeError >>
    ELSE /\ startTime' = st
         /\ timerInterval' = ti
         /\ inputValue' = v
         /\ totalCharsTyped' = totalCharsTyped + Len(v)
         /\ UNCHANGED << stage, isFinished, currentQuote, timerText, inputDisabled,
                         quoteDisplay, typingStats, saveCalls, lastRead, presented,
                         attempts, statsShown, storeError >>

\* validateSubmission for the input value v; st and ti are STATE.startTime
\* and the interval as handleInput leaves them
validateSubmission(v, st, ti) ==
    IF v = currentQuote
    THEN /\ totalCharsTyped' = totalCharsTyped + Len(v)
         /\ stage' = stage + 1
         /\ IF stage + 1 >= TOTAL_STAGES
            THEN CompleteSession(st, totalCharsTyped + Len(v), v)
            ELSE /\ startTime' = st
                 /\ timerInterval' = ti
                 /\ updateStageUI(dailyQuotes, stage + 1, presented, v)
                 /\ UNCHANGED << isFinished, timerText, inputDisabled, typingStats,
                                 saveCalls, attempts,
                                 statsShown, storeError >>
    ELSE /\ startTime' = st
         /\ timerInterval' = ti
         /\ inputValue' = v
         /\ UNCHANGED << stage, isFinished, totalCharsTyped, currentQuote, timerText,
                         inputDisabled, quoteDisplay, typingStats, saveCalls,
                         lastRead, presented, attempts,
                         statsShown, storeError >>

\* handleInput for a keyup with the input holding v
handleInput(isEnter, v) ==
    IF isFinished
    THEN /\ inputValue' = v
         /\ UNCHANGED << stage, startTime, timerInterval, isFinished, totalCharsTyped,
                         currentQuote, timerText, inputDisabled, quoteDisplay,
                         typingStats, saveCalls, lastRead, presented, attempts,
                         statsShown, storeError >>
    ELSE LET st == IF StartsTimer(v) THEN now ELSE startTime
             ti == IF StartsTimer(v) THEN TRUE ELSE timerInterval
         IN  IF isEnter
             THEN validateSubmission(v, st, ti)
             ELSE /\ startTime' = st
                  /\ timerInterval' = ti
                  /\ inputValue' = v
                  /\ UNCHANGED << stage, isFinished, totalCharsTyped, currentQuote,
                                  timerText, inputDisabled, quoteDisplay, typingStats,
                                  saveCalls, lastRead, presented, attempts,
                                  statsShown, storeError >>

\* keyup of a key that edits the text: the input now holds v
KeyUpText(v) ==
    /\ ~inputDisabled
    /\ v # inputValue
    /\ handleInput(FALSE, v)
    /\ UNCHANGED << language, allQuotes, dailyQuotes, typingLanguage, now, initPc,
                    sessionTriple >>
    /\ UNCHANGED schedVars

\* keyup of Enter
KeyUpEnter ==
    /\ ~inputDisabled
    /\ handleInput(TRUE, inputValue)
    /\ UNCHANGED << language, allQuotes, dailyQuotes, typingLanguage, now, initPc,
                    sessionTriple >>
    /\ UNCHANGED schedVars

\* the setInterval callback of startTimer
TimerTick ==
    /\ timerInterval
    /\ timerText' = ToFixed2(now - startTime)
    /\ UNCHANGED << language, stage, startTime, timerInterval, currentQuote,
                    isFinished, totalCharsTyped, allQuotes, dailyQuotes, inputValue,
                    inputDisabled, quoteDisplay, typingLanguage, typingStats, now,
                    initPc, saveCalls, attempts,
                    statsShown, storeError >>
    /\ UNCHANGED sessionHistory
    /\ UNCHANGED schedVars

\* time passes
ClockAdvance ==
    /\ now + ClockStep <= LastNow
    /\ now' = now + ClockStep
    /\ UNCHANGED << typingLanguage, typingStats, saveCalls, attempts,
                    statsShown, storeError >>
    /\ UNCHANGED pageVars
    /\ UNCHANGED sessionHistory
    /\ UNCHANGED schedVars

\* every language's key removed
RemoveEveryItem(stats, lang) == [l \in Languages |-> AbsentEntry]

\* localStorage.removeItem(`typingStats_${STATE.language}`)
RemoveItem(stats, lang) == [stats EXCEPT ![lang] = AbsentEntry]

\* resetAllRecords, with the answer to confirm(msg)
resetAllRecords(confirmed) ==
    /\ IF confirmed
       THEN /\ typingStats' = RemoveItem(typingStats, language)
            /\ updateStatsUI(AbsentEntry)
            /\ attempts' = [attempts EXCEPT ![language] = << >>]
       ELSE UNCHANGED << typingStats, attempts, statsShown, storeError >>
    /\ UNCHANGED << typingLanguage, now, saveCalls >>
    /\ UNCHANGED pageVars
    /\ UNCHANGED sessionHistory
    /\ UNCHANGED schedVars

\* changeLanguage(newLang), with the answer to confirm when it asks
changeLanguage(newLang, confirmed) ==
    IF \/ language = newLang
       \/ (startTime # NullTime /\ ~isFinished /\ ~confirmed)
    THEN UNCHANGED vars
    ELSE Reload(newLang)

\* the user reloads the page
PageReload == Reload(typingLanguage)

Next ==
    \/ LoadSucceeds
    \/ LoadFails
    \/ RestartClick
    \/ \E v \in {WrongText, currentQuote} : KeyUpText(v)
    \/ KeyUpEnter
    \/ TimerTick
    \/ ClockAdvance
    \/ \E confirmed \in BOOLEAN : resetAllRecords(confirmed)
    \/ \E newLang \in Languages, confirmed \in BOOLEAN : changeLanguage(newLang, confirmed)
    \/ PageReload

Spec == Init /\ [][Next]_vars

\* a keyup of Enter that submits the third stage of an unfinished session
\* with the input equal to the passage
ThirdStageSubmittedCorrectly ==
    /\ KeyUpEnter
    /\ ~isFinished
    /\ stage = TOTAL_STAGES - 1
    /\ inputValue = currentQuote

\* the store after exactly one saveRecord on the language's entry
SavedOnce ==
    /\ typingStats'[language].present
    /\ typingStats'[language].playCount = LoadData(typingStats[language]).playCount + 1
    /\ \A lang \in Languages \ {language} : typingStats'[lang] = typingStats[lang]

\* C4: saveRecord runs on a step exactly when that step is a correct
\* submission of the third stage, and then once; a finished session saves
\* nothing more; every other step leaves the store as it is, except that a
\* confirmed resetAllRecords removes the language's entry; a step that
\* takes an unfinished session back to stage 0 leaves the store unchanged.
C4_SavesExactlyOnCompletion ==
    [][ /\ (saveCalls' # saveCalls) <=> ThirdStageSubmittedCorrectly
        /\ saveCalls' # saveCalls => (saveCalls' = saveCalls + 1 /\ SavedOnce)
        /\ isFinished => saveCalls' = saveCalls
        /\ saveCalls' = saveCalls =>
              \/ typingStats' = typingStats
              \/ typingStats' = [typingStats EXCEPT ![language] = AbsentEntry]
        /\ (~isFinished /\ stage # 0 /\ stage' = 0) => typingStats' = typingStats
      ]_vars

\* a session of three presented passages completed and saved once
C4_Witness ==
    /\ isFinished
    /\ Len(presented) = TOTAL_STAGES
    /\ stage = TOTAL_STAGES
    /\ saveCalls = 1
    /\ typingStats[language].playCount = 1
    /\ Len(typingStats[language].records) = 1
    /\ totalCharsTyped > 0

\* C8: whenever updateStageUI has read STATE.dailyQuotes[STATE.stage], in
\* any interleaving of the load with restart clicks and keyups and also
\* when the load fails, the load had completed and selectDailyQuotes had
\* stored a triple of passages.
C8_ReadOnlyAfterLoad ==
    lastRead # "none" =>
        /\ lastRead = "populated"
        /\ initPc = "ready"
        /\ Len(dailyQuotes) = TOTAL_STAGES

\* C9: the passages presented so far in a session are, stage by stage, the
\* elements of the triple that was stored when the session's resetGame ran,
\* and that triple is still the stored one; no step, the clock passing
\* midnight included, changes a passage already presented or the triple of
\* a session that goes on.
C9_SessionPassagesFromOneTriple ==
    /\ Len(presented) <= TOTAL_STAGES
    /\ \A k \in 1..Len(presented) : presented[k] = sessionTriple[k]
    /\ sessionTriple = dailyQuotes

\* a session that began on one KST day and is at its third stage on the
\* next, with passages that are not those of the day it is now
C9_Witness ==
    /\ Len(presented) = TOTAL_STAGES
    /\ ~isFinished
    /\ startTime # NullTime
    /\ getDaysSinceFixedEpoch(startTime) < getDaysSinceFixedEpoch(now)
    /\ presented = sessionTriple
    /\ presented # selectDailyQuotes(allQuotes, language, now)

\* C10: a restart click on the loaded page begins a session whose triple,
\* and whose first passage presented, are those selectDailyQuotes yields
\* for the KST day at the moment of the click.
C10_RestartSelectsForTheDay ==
    [][ (RestartClick /\ initPc = "ready") =>
            LET today == selectDailyQuotes(allQuotes, language, now)
            IN  /\ sessionTriple' = today
                /\ presented' = << today[1] >>
      ]_vars

\* C13: the percentile of the attempt just timed, when its wpm is finite
\* and positive, lies in [0.01, 99.9], and so does the percentile of every
\* record in the store.
C13_PercentileInRange ==
    /\ (timerText > 0 /\ totalCharsTyped > 0) =>
          AttemptPercentile(totalCharsTyped, timerText)
              \in MinPercentile..MaxPercentile
    /\ \A lang \in Languages :
          \A i \in 1..Len(typingStats[lang].records) :
              typingStats[lang].records[i].percentile
                  \in MinPercentile..MaxPercentile

\* C16: no record in the store belongs to an attempt whose timer read 0.00
\* or less (saveRecord fails on such an attempt and appends nothing), so
\* none carries the null that a NaN or infinite wpm or percentile turns
\* into when it is persisted.
C16_NoRecordOfZeroElapsed ==
    \A lang \in Languages :
        \A i \in 1..Len(typingStats[lang].records) :
            /\ typingStats[lang].records[i].duration > 0
            /\ typingStats[lang].records[i].wpm # JsonNull
            /\ typingStats[lang].records[i].percentile # JsonNull

(***************************************************************************)
(* The record store alone: completed attempts of arbitrary length and      *)
(* duration, and clearing, on the store of the page's language             *)
(***************************************************************************)
\* STATE.totalCharsTyped and the timer text (in hundredths of a second) of
\* the attempts the store receives
StoreChars == {2, 4}

StoreTimes == {100, 200}

\* saveRecord for an attempt of `chars` characters that took finalTime
AttemptCompletes(chars, finalTime) ==
    /\ saveCalls < MaxAttempts
    /\ totalCharsTyped' = chars
    /\ timerText' = finalTime
    /\ typingStats' = [typingStats EXCEPT
                         ![language] = saveRecord(@, chars, finalTime, now)]
    /\ saveCalls' = saveCalls + 1
    /\ attempts' = [attempts EXCEPT
                      ![language] = InsertAscending(@, AttemptPercentile(chars, finalTime))]
    /\ UNCHANGED << language, stage, startTime, timerInterval, currentQuote,
                    isFinished, allQuotes, dailyQuotes, inputValue, inputDisabled,
                    quoteDisplay, typingLanguage, now, initPc >>
    /\ UNCHANGED sessionHistory
    /\ UNCHANGED storeView
    /\ UNCHANGED schedVars

NextStore ==
    \/ \E chars \in StoreChars, finalTime \in StoreTimes :
          AttemptCompletes(chars, finalTime)
    \/ \E confirmed \in BOOLEAN : resetAllRecords(confirmed)

SpecStore == Init /\ [][NextStore]_vars

Min(a, b) == IF a < b THEN a ELSE b

\* the records under typingStats_<lang>
RecordsOf(lang) == typingStats[lang].records

C3_PlayCountCountsAttempts ==
    \A lang \in Languages :
        /\ typingStats[lang].playCount = Len(attempts[lang])
        /\ typingStats[lang].present \/ attempts[lang] = << >>

\* the sixth attempt counted although its record was evicted at once
C3_Witness ==
    /\ typingStats[language].playCount = 6
    /\ \A i \in 1..5 : RecordsOf(language)[i].playIndex # 6

(***************************************************************************)
(* The scheduler alone, statement by statement: the stream positions from  *)
(* 0 on resolved by getSentenceAtGlobalIndex, again from 0 at any time,    *)
(* with selectDailyQuotes evaluated between the runs as the clock moves    *)
(***************************************************************************)
\* passages of the pools the scheduler runs on
Passages == << "p0", "p1", "p2", "p3", "p4", "p5", "p6", "p7" >>

\* a pool of n passages
SamplePool(n) == SubSeq(Passages, 1, n)

\* the variables of the page and of localStorage
programVars == << language, stage, startTime, timerInterval, currentQuote,
                  isFinished, totalCharsTyped, allQuotes, timerText, inputValue,
                  inputDisabled, quoteDisplay, typingLanguage, typingStats, initPc,
                  saveCalls, lastRead, presented, sessionTriple, attempts,
                  statsShown, storeError >>

appVars == << programVars, positions >>

InitSched ==
    /\ InitRest
    /\ language \in Languages
    /\ allQuotes \in { SamplePool(n) : n \in 1..MaxLen }

\* the stream positions the runs resolve
StreamLength == (MaxDeck + 1) * Len(allQuotes)

\* getSentenceAtGlobalIndex(globalIndex) up to the loop of getShuffledIndices
SentenceBegin ==
    /\ schedPc = "idle"
    /\ globalIndex < StreamLength
    /\ schedPc' = "shuffling"
    /\ indices' = IndexArray(Len(allQuotes))
    /\ prngH' = createSeededRandom(
                    DeckSeed(language, DeckIndexOf(Len(allQuotes), globalIndex)))
    /\ loopI' = Len(allQuotes) - 1
    /\ UNCHANGED << globalIndex, drawn, stream, dailyQuotes, now >>
    /\ UNCHANGED appVars

\* one iteration of the loop, with the value prng() returns
ShuffleIterate ==
    /\ schedPc = "shuffling"
    /\ loopI > 0
    /\ prngH' = PrngNext(prngH).h
    /\ indices' = ShuffleStep(indices, loopI, PrngNext(prngH).u)
    /\ loopI' = loopI - 1
    /\ UNCHANGED << schedPc, globalIndex, drawn, stream, dailyQuotes, now >>
    /\ UNCHANGED appVars

\* the sentence the run is about to return
ReturnedSentence ==
    allQuotes[indices[LocalIndexOf(Len(allQuotes), globalIndex) + 1] + 1]

\* return STATE.allQuotes[shuffledIndices[localIndex]]; the caller goes on to
\* the next stream position
SentenceReturn ==
    /\ schedPc = "shuffling"
    /\ loopI <= 0
    /\ schedPc' = "idle"
    /\ drawn' = IF LocalIndexOf(Len(allQuotes), globalIndex) = 0
                THEN << indices[1] >>
                ELSE Append(drawn, indices[LocalIndexOf(Len(allQuotes), globalIndex) + 1])
    /\ stream' = IF globalIndex < Len(stream) THEN stream
                 ELSE Append(stream, ReturnedSentence)
    /\ globalIndex' = globalIndex + 1
    /\ UNCHANGED << indices, loopI, prngH, dailyQuotes, now >>
    /\ UNCHANGED appVars

\* the next run starts over from stream position 0
StreamRewind ==
    /\ schedPc = "idle"
    /\ globalIndex > 0
    /\ globalIndex' = 0
    /\ drawn' = << >>
    /\ UNCHANGED << schedPc, indices, loopI, prngH, stream, dailyQuotes, now >>
    /\ UNCHANGED appVars

\* selectDailyQuotes(), once every stream position has been resolved
SelectDaily ==
    /\ schedPc = "idle"
    /\ Len(stream) = StreamLength
    /\ dailyQuotes' = selectDailyQuotes(allQuotes, language, now)
    /\ UNCHANGED << now >>
    /\ UNCHANGED schedVars
    /\ UNCHANGED appVars

\* a day passes
DayPasses ==
    /\ schedPc = "idle"
    /\ getDaysSinceFixedEpoch(now) < MaxDay
    /\ now' = now + DayMs
    /\ UNCHANGED << dailyQuotes >>
    /\ UNCHANGED schedVars
    /\ UNCHANGED appVars

NextSched ==
    \/ SentenceBegin
    \/ ShuffleIterate
    \/ SentenceReturn
    \/ StreamRewind
    \/ SelectDaily
    \/ DayPasses
    \/ ClockAdvance

SpecSched == InitSched /\ [][NextSched]_vars

\* the numbers 0 .. n-1 each at exactly one place of arr
IsPermutation(arr, n) ==
    /\ Len(arr) = n
    /\ \A v \in 0..(n - 1) : Cardinality({ p \in 1..n : arr[p] = v }) = 1

\* C6: the pool indices selected for the stream positions of one deck, from
\* its first position on, are indices of the pool and differ from one
\* another, and there is one per position resolved; so the N positions of a
\* deck select every pool index exactly once.
C6_DeckSelectsEachIndexOnce ==
    /\ \A p \in 1..Len(drawn) : drawn[p] \in 0..(Len(allQuotes) - 1)
    /\ \A p, q \in 1..Len(drawn) : p # q => drawn[p] # drawn[q]
    /\ schedPc = "idle" /\ globalIndex > 0 =>
          Len(drawn) = LocalIndexOf(Len(allQuotes), globalIndex - 1) + 1
    /\ schedPc = "idle" /\ globalIndex > 0
          /\ LocalIndexOf(Len(allQuotes), globalIndex) = 0 =>
          IsPermutation(drawn, Len(allQuotes))

\* the second deck of a pool of four resolved to its end, in another order
\* than the first deck's
C6_Witness ==
    /\ schedPc = "idle"
    /\ Len(allQuotes) = 4
    /\ globalIndex = 8
    /\ IsPermutation(drawn, 4)
    /\ << stream[5], stream[6], stream[7], stream[8] >>
          # << stream[1], stream[2], stream[3], stream[4] >>

\* the permutation and the sentence of a run that has reached its return
\* are those of (length, seed) and of the stream position alone
SameAsEveryEvaluation ==
    (schedPc = "shuffling" /\ loopI <= 0) =>
        /\ indices = getShuffledIndices(Len(allQuotes),
                        DeckSeed(language, DeckIndexOf(Len(allQuotes), globalIndex)))
        /\ globalIndex < Len(stream) => ReturnedSentence = stream[globalIndex + 1]

\* the triple is the passages first returned for the day's stream positions
SameAsStream(triple, t) ==
    \A k \in 1..3 :
        (3 * getDaysSinceFixedEpoch(t)) + k <= Len(stream) =>
            triple[k] = stream[(3 * getDaysSinceFixedEpoch(t)) + k]

\* C7: whatever runs came before and whatever they left in the generator,
\* a run of getShuffledIndices ends with the permutation of its (length,
\* seed), a stream position resolved again returns the passage it returned
\* the first time, and selectDailyQuotes, at any time of a day, yields the
\* passages of that day's three stream positions.
C7_SchedulingIsDeterministic ==
    /\ []SameAsEveryEvaluation
    /\ [][SelectDaily => SameAsStream(dailyQuotes', now)]_vars

\* a stream position of day 1 resolved a second time, about to return, with
\* the triple of day 1 selected after a whole day passed
C7_Witness ==
    /\ schedPc = "shuffling"
    /\ loopI <= 0
    /\ globalIndex \in 3..5
    /\ Len(stream) >= 6
    /\ now = FirstNow + DayMs
    /\ dailyQuotes = << stream[4], stream[5], stream[6] >>
    /\ prngH # createSeededRandom(DeckSeed(language, 0))

(***************************************************************************)
(* getShuffledIndices alone, with any values returned by prng()            *)
(***************************************************************************)
\* numerators (of a value in [0,1), over 2^32) on both sides of every k / m
\* for m <= 5, with the smallest and the largest
PrngSamples ==
    { << 0, 0 >>, << 13108, 0 >>, << 16384, 0 >>, << 21846, 0 >>, << 26215, 0 >>,
      << 32768, 0 >>, << 39322, 0 >>, << 43691, 0 >>, << 49152, 0 >>,
      << 52429, 0 >>, << 65535, 65535 >> }

InitShuffle ==
    /\ InitRest
    /\ language \in DetectedLanguages
    /\ allQuotes \in { SamplePool(n) : n \in 0..(MaxLen + 1) }

\* getShuffledIndices(length, seed) up to its loop, for length the pool's
ShuffleBeginAny ==
    /\ schedPc = "idle"
    /\ schedPc' = "shuffling"
    /\ indices' = IndexArray(Len(allQuotes))
    /\ loopI' = Len(allQuotes) - 1
    /\ UNCHANGED << globalIndex, prngH, drawn, stream, dailyQuotes, now >>
    /\ UNCHANGED appVars

\* one iteration of the loop, prng() returning u / 2^32
ShuffleIterateAny(u) ==
    /\ schedPc = "shuffling"
    /\ loopI > 0
    /\ indices' = ShuffleStep(indices, loopI, u)
    /\ loopI' = loopI - 1
    /\ UNCHANGED << schedPc, globalIndex, prngH, drawn, stream, dailyQuotes, now >>
    /\ UNCHANGED appVars

\* return indices
ShuffleReturnAny ==
    /\ schedPc = "shuffling"
    /\ loopI <= 0
    /\ schedPc' = "idle"
    /\ UNCHANGED << globalIndex, indices, loopI, prngH, drawn, stream, dailyQuotes,
                    now >>
    /\ UNCHANGED appVars

NextShuffle ==
    \/ ShuffleBeginAny
    \/ \E u \in PrngSamples : ShuffleIterateAny(u)
    \/ ShuffleReturnAny

SpecShuffle == InitShuffle /\ [][NextShuffle]_vars

\* C5: the array getShuffledIndices returns for length n has length n and
\* holds each of 0 .. n-1 exactly once, whatever prng() returned.
C5_ShuffleIsBijection ==
    (schedPc = "shuffling" /\ loopI <= 0) => IsPermutation(indices, Len(allQuotes))

\* a shuffle of five returned with no index left at its place
C5_Witness ==
    /\ schedPc = "shuffling"
    /\ loopI <= 0
    /\ Len(allQuotes) = 5
    /\ \A p \in 1..5 : indices[p] # p - 1

(***************************************************************************)
(* selectDailyQuotes alone, statement by statement, on any pool (the empty *)
(* one included), with the system clock set to days before and after the   *)
(* epoch date                                                              *)
(***************************************************************************)
\* the KST calendar days the clock is set to, in days from the epoch date
SampleDays == (-(MaxDay + 1))..(MaxDay + 1)

\* the first and the last millisecond of each of the days
ClockSamples ==
    UNION { { (d + 1) * DayMs, ((d + 2) * DayMs) - 1 } : d \in SampleDays }

\* the KST calendar day of clock value t, in days from the epoch date
CalendarDay(t) ==
    CHOOSE d \in SampleDays : (d + 1) * DayMs <= t /\ t < (d + 2) * DayMs

InitSelect ==
    /\ InitRest
    /\ language \in Languages
    /\ allQuotes \in { SamplePool(n) : n \in 0..MaxLen }

\* the system clock is set
ClockSet(t) ==
    /\ schedPc = "idle"
    /\ now' = t
    /\ UNCHANGED << dailyQuotes >>
    /\ UNCHANGED schedVars
    /\ UNCHANGED programVars

\* selectDailyQuotes up to its loop: the return on an empty pool, or
\* daysPassed, globalStartIndex and the empty STATE.dailyQuotes
SelectBegin ==
    /\ schedPc = "idle"
    /\ IF PoolIsEmpty(allQuotes)
       THEN /\ dailyQuotes' = << Placeholder, Placeholder, Placeholder >>
            /\ UNCHANGED << schedPc, globalIndex >>
       ELSE /\ dailyQuotes' = << >>
            /\ globalIndex' = getDaysSinceFixedEpoch(now) * 3
            /\ schedPc' = "selecting"
    /\ UNCHANGED << indices, loopI, prngH, drawn, stream, now >>
    /\ UNCHANGED appVars

\* one iteration of the loop: getSentenceAtGlobalIndex(globalStartIndex + i)
\* divides by the pool's length and indexes the pool; after the third the
\* function returns
SelectPush ==
    /\ schedPc = "selecting"
    /\ dailyQuotes' = Append(dailyQuotes,
                         getSentenceAtGlobalIndex(allQuotes, language,
                                                  globalIndex + Len(dailyQuotes)))
    /\ positions' = positions \cup
                       { << CalendarDay(now), globalIndex + Len(dailyQuotes) >> }
    /\ schedPc' = IF Len(dailyQuotes) = TOTAL_STAGES - 1 THEN "idle" ELSE "selecting"
    /\ UNCHANGED << globalIndex, indices, loopI, prngH, drawn, stream, now >>
    /\ UNCHANGED programVars

NextSelect ==
    \/ \E t \in ClockSamples : ClockSet(t)
    \/ SelectBegin
    \/ SelectPush

SpecSelect == InitSelect /\ [][NextSelect]_vars

\* C11: on an empty pool selectDailyQuotes never reaches its loop, so that
\* getSentenceAtGlobalIndex (the division and the modulo by the pool's size
\* and the indexing of the pool) is never called, and the call leaves three
\* identical placeholder passages in STATE.dailyQuotes.
C11_EmptyPoolYieldsPlaceholders ==
    /\ [](Len(allQuotes) = 0 =>
            /\ schedPc = "idle"
            /\ positions = { }
            /\ dailyQuotes \in { Undefined,
                                 << Placeholder, Placeholder, Placeholder >> })
    /\ [][ (SelectBegin /\ Len(allQuotes) = 0) =>
              /\ dailyQuotes' = << Placeholder, Placeholder, Placeholder >>
              /\ dailyQuotes'[1] = dailyQuotes'[2]
              /\ dailyQuotes'[2] = dailyQuotes'[3]
         ]_vars

\* the placeholders selected on the empty pool, on a day after the epoch
C11_Witness ==
    /\ Len(allQuotes) = 0
    /\ dailyQuotes = << Placeholder, Placeholder, Placeholder >>
    /\ CalendarDay(now) > 0
    /\ schedPc = "idle"

\* the days getDaysSinceFixedEpoch is to return for calendar day d
DaysFromEpoch(d) == IF d <= 0 THEN 0 ELSE d

\* C12: getDaysSinceFixedEpoch returns a natural number: 0 on the epoch date
\* and on every earlier date, d on the date d days after the epoch; so
\* globalStartIndex is 0 on the epoch day, and the stream positions resolved
\* on the day d >= 0 are among 3d, 3d+1, 3d+2 (the blocks of consecutive
\* days follow one another and share no position); on a day before the
\* epoch they are those of the epoch day.
C12_DaysSinceEpoch ==
    /\ getDaysSinceFixedEpoch(now) \in Nat
    /\ getDaysSinceFixedEpoch(now) = DaysFromEpoch(CalendarDay(now))
    /\ schedPc = "selecting" => globalIndex = 3 * DaysFromEpoch(CalendarDay(now))
    /\ \A e \in positions :
          e[2] \in (3 * DaysFromEpoch(e[1]))..((3 * DaysFromEpoch(e[1])) + 2)
    /\ \A e, f \in positions :
          (e[1] >= 0 /\ f[1] >= 0 /\ e[1] # f[1]) => e[2] # f[2]

\* the triples of a day before the epoch, of the epoch day and of the two
\* days after it selected, the clock now being on a day before the epoch
C12_Witness ==
    /\ schedPc = "idle"
    /\ CalendarDay(now) < 0
    /\ { << -1, 0 >>, << -1, 1 >>, << -1, 2 >>, << 0, 0 >>, << 0, 1 >>, << 0, 2 >>,
         << 1, 3 >>, << 1, 4 >>, << 1, 5 >>, << 2, 6 >>, << 2, 7 >>, << 2, 8 >> }
          \subseteq positions
    /\ Len(dailyQuotes) = TOTAL_STAGES

(***************************************************************************)
(* The skill model alone: one attempt of any length and timer reading      *)
(* saved on an absent entry                                                *)
(***************************************************************************)
\* the largest STATE.totalCharsTyped of the attempts
MaxChars == 30

\* timer readings in hundredths of a second, "0.00" among them
SkillTimes == { 0, 1, 100, 300, 700, 1500, 6000 }

\* saveRecord on an absent entry
FirstAttempt(chars, finalTime) ==
    /\ ~typingStats[language].present
    /\ AttemptCompletes(chars, finalTime)

NextSkill ==
    \/ \E chars \in 0..MaxChars, finalTime \in SkillTimes :
          FirstAttempt(chars, finalTime)
    \/ \E confirmed \in BOOLEAN : resetAllRecords(confirmed)

SpecSkill == Init /\ [][NextSkill]_vars

\* C14: for an attempt saved with a positive timer reading, every attempt
\* of the same reading with fewer characters or as many has a wpm that is
\* not greater and a percentile that is not smaller.
C14_PercentileNonIncreasing ==
    (typingStats[language].present /\ timerText > 0) =>
        \A c1 \in 0..totalCharsTyped :
            /\ WpmOf(c1, timerText) <= WpmOf(totalCharsTyped, timerText)
            /\ AttemptPercentile(c1, timerText)
                  >= RecordsOf(language)[1].percentile

\* an attempt faster than the mean whose percentile is below that of every
\* attempt of the same reading with fewer characters, the slowest of which
\* are above 50 percent
C14_Witness ==
    /\ typingStats[language].present
    /\ timerText = 700
    /\ totalCharsTyped = MaxChars
    /\ \A c1 \in 0..(totalCharsTyped - 1) :
          AttemptPercentile(c1, timerText) > RecordsOf(language)[1].percentile
    /\ AttemptPercentile(0, timerText) > 5000
    /\ RecordsOf(language)[1].percentile < 5000

\* the saved record of an attempt at exactly 40 wpm
SavedAtMean ==
    /\ typingStats[language].present
    /\ Len(RecordsOf(language)) = 1
    /\ RecordsOf(language)[1].wpm = 40000

\* C15 as stated: at 40 wpm Erf(0) is exactly 0, the CDF exactly 0.5 and
\* the percentile exactly 50.0.
C15_MedianIsExactlyFifty ==
    SavedAtMean =>
        /\ ErfOfZero = 0
        /\ TwiceCDFAtMean = Nano
        /\ TopPercentAtMean = Nano

\* C15 as amended: at 40 wpm Erf(0) is 1e-9 (the five constants add up to
\* 0.999999999), the CDF is 0.5000000005 and the percentile 49.99999995,
\* which is 50.0 to the one decimal the ranking list shows.
C15_MedianIsFiftyToOneDecimal ==
    SavedAtMean =>
        /\ ErfOfZero = 1
        /\ TwiceCDFAtMean = Nano + 1
        /\ TopPercentAtMean = Nano - 1
        /\ ToFixed1(RecordsOf(language)[1].percentile) = 500

\* ten characters in 3.00 seconds saved
C15_Witness ==
    /\ SavedAtMean
    /\ totalCharsTyped = 10
    /\ timerText = 300
    /\ RecordsOf(language)[1].duration = 300

(***************************************************************************)
(* Stored values of any form, and writes that fail: SpecPersist            *)
(***************************************************************************)
\* saveRecord is called at most this many times
MaxSaves == 2

\* a stored record of an earlier attempt
SampleRecord(playIndex, percentile) ==
    [playIndex |-> playIndex, percentile |-> percentile, wpm |-> 40000,
     duration |-> 600, timestamp |-> FirstNow]

\* a stored JSON object
ObjectEntry(playCount, hasRecords, records) ==
    [present |-> TRUE, form |-> "object", playCount |-> playCount,
     hasRecords |-> hasRecords, records |-> records]

\* a stored text that is no JSON object
OtherEntry(form) ==
    [present |-> TRUE, form |-> form, playCount |-> UndefinedValue,
     hasRecords |-> FALSE, records |-> << >>]

\* {"playCount":2} with no records property
LegacyEntry == ObjectEntry(2, FALSE, << >>)

\* {}
EmptyObjectEntry == ObjectEntry(UndefinedValue, FALSE, << >>)

\* {"records":[r]} with no playCount property
ShortEntryNoCount == ObjectEntry(UndefinedValue, TRUE, << SampleRecord(2, 5000) >>)

\* {"records":[...]} with five records of the top 1 to 5 percent and no
\* playCount property
FullEntryNoCount ==
    ObjectEntry(UndefinedValue, TRUE, [i \in 1..5 |-> SampleRecord(i + 1, 100 * i)])

\* {"playCount":3,"records":[r]}
WellFormedEntry == ObjectEntry(3, TRUE, << SampleRecord(3, 5000) >>)

\* the values found under a typingStats_<lang> key when the page loads
StoredSamples ==
    { AbsentEntry, LegacyEntry, EmptyObjectEntry, ShortEntryNoCount, FullEntryNoCount,
      WellFormedEntry, OtherEntry("falsy"), OtherEntry("array"), OtherEntry("number"),
      OtherEntry("unparseable") }

InitPersist ==
    /\ InitButStore
    /\ language \in Languages
    /\ allQuotes = << >>
    /\ typingStats \in [Languages -> StoredSamples]

\* validateSubmission for the third correct submission of a session, of
\* `chars` characters in all with the timer stopping at finalTime; `written`
\* tells whether setItem stores the value
FinishAttempt(chars, finalTime, written) ==
    /\ initPc = "ready"
    /\ ~isFinished
    /\ saveCalls < MaxSaves
    /\ totalCharsTyped' = chars
    /\ stage' = TOTAL_STAGES
    /\ CompleteWith(chars, finalTime, currentQuote, written)
    /\ UNCHANGED << language, startTime, currentQuote, allQuotes, dailyQuotes,
                    typingLanguage, now, initPc >>
    /\ UNCHANGED sessionHistory
    /\ UNCHANGED schedVars

NextPersist ==
    \/ LoadSucceeds
    \/ \E chars \in StoreChars, finalTime \in StoreTimes, written \in BOOLEAN :
          FinishAttempt(chars, finalTime, written)
    \/ RestartClick
    \/ \E confirmed \in BOOLEAN : resetAllRecords(confirmed)

SpecPersist == InitPersist /\ [][NextPersist]_vars

\* the key is absent, or holds an object without playCount or without records
MissingParts(entry) ==
    \/ entry.form = "absent"
    \/ entry.form = "object" /\ (~entry.hasRecords \/ entry.playCount = UndefinedValue)

\* the stored playCount, or 0
StoredCount(entry) ==
    IF entry.form = "object" /\ entry.playCount # UndefinedValue
    THEN entry.playCount ELSE 0

\* the stored records, or none
StoredRecords(entry) ==
    IF entry.form = "object" /\ entry.hasRecords THEN entry.records ELSE << >>

Range(s) == { s[i] : i \in 1..Len(s) }

\* the record of the attempt as it is read back from the store
StoredAttempt(entry, chars, finalTime) ==
    [playIndex |-> StoredCount(entry) + 1,
     percentile |-> JsonNumber(AttemptPercentile(chars, finalTime)),
     wpm |-> JsonNumber(WpmOf(chars, finalTime)),
     duration |-> finalTime, timestamp |-> now]

\* updateStatsUI on load renders the stored records, or none, without error
LoadedWithDefaults ==
    (LoadSucceeds /\ MissingParts(typingStats[language])) =>
        /\ storeError' = "none"
        /\ Len(statsShown'.list) = Len(StoredRecords(typingStats[language]))

\* C17 as stated: when the entry of the language is absent or lacks records
\* or playCount, the first attempt yields playCount = (stored or 0) + 1 and
\* a records list containing the new record, and neither saveRecord nor
\* updateStatsUI ends with an error.
C17_MissingPartsDefaulted ==
    [][/\ LoadedWithDefaults
       /\ \A chars \in StoreChars, finalTime \in StoreTimes :
             (FinishAttempt(chars, finalTime, TRUE) /\ MissingParts(typingStats[language])) =>
                 /\ storeError' = "none"
                 /\ typingStats'[language].playCount = StoredCount(typingStats[language]) + 1
                 /\ StoredAttempt(typingStats[language], chars, finalTime)
                       \in Range(typingStats'[language].records)]_vars

\* C17 as amended: when the entry of the language is absent or lacks records
\* or playCount, the first attempt yields playCount = (stored or 0) + 1 and
\* a records list made of the stored records (none when records is missing)
\* and the new record, cut to five; it contains the new record unless five
\* stored records are at least as good.  Neither saveRecord nor
\* updateStatsUI ends with an error, and the ranking shows the list.
C17_MissingPartsDefaultedTopFive ==
    [][/\ LoadedWithDefaults
       /\ \A chars \in StoreChars, finalTime \in StoreTimes :
             (FinishAttempt(chars, finalTime, TRUE) /\ MissingParts(typingStats[language])) =>
                 LET old == StoredRecords(typingStats[language])
                     new == StoredAttempt(typingStats[language], chars, finalTime)
                     kept == typingStats'[language].records
                 IN  /\ storeError' = "none"
                     /\ typingStats'[language].present
                     /\ typingStats'[language].playCount
                           = StoredCount(typingStats[language]) + 1
                     /\ Range(kept) \subseteq Range(old) \cup { new }
                     /\ Len(kept) = Min(Len(old) + 1, 5)
                     /\ \/ new \in Range(kept)
                        \/ /\ Len(old) = 5
                           /\ \A o \in Range(old) : o.percentile <= new.percentile
                     /\ Len(statsShown'.list) = Len(kept)]_vars

\* the attempt after a stored list of five better records and no playCount:
\* the count is 1 and the list is still the five stored records
C17_Witness ==
    /\ saveCalls = 1
    /\ storeError = "none"
    /\ typingStats[language].playCount = 1
    /\ typingStats[language].records = FullEntryNoCount.records
    /\ Len(statsShown.list) = 5

\* the stored text is not a value of the shape { playCount, records }
Malformed(entry) == entry.form \in { "unparseable", "number", "array", "falsy" }

\* C18: when the stored value of the language is malformed, neither
\* updateStatsUI nor saveRecord ends with an error; the ranking shows no
\* records, and the attempt is stored in a store rebuilt from the defaults.
C18_MalformedIsRecovered ==
    [][/\ (LoadSucceeds /\ Malformed(typingStats[language])) =>
              /\ storeError' = "none"
              /\ statsShown' = NoStats
       /\ \A chars \in StoreChars, finalTime \in StoreTimes :
             (FinishAttempt(chars, finalTime, TRUE) /\ Malformed(typingStats[language])) =>
                 /\ storeError' = "none"
                 /\ typingStats'[language].form = "object"
                 /\ typingStats'[language].playCount = 1
                 /\ typingStats'[language].records
                       = << StoredAttempt(AbsentEntry, chars, finalTime) >>]_vars

\* C19: a confirmed reset removes the entry of the current language, so
\* that the next load yields playCount 0 and no records and the next attempt
\* gets playIndex 1, and leaves the entry of every other language as it was;
\* a declined reset changes nothing.
C19_ResetRemovesCurrentEntryOnly ==
    [][/\ resetAllRecords(TRUE) =>
              /\ ~typingStats'[language].present
              /\ \A l \in Languages \ { language } : typingStats'[l] = typingStats[l]
              /\ LoadData(typingStats'[language]).playCount = 0
              /\ LoadData(typingStats'[language]).records = << >>
              /\ statsShown' = NoStats
              /\ \A chars \in StoreChars, finalTime \in StoreTimes :
                    saveRecord(typingStats'[language], chars, finalTime, now).records[1].playIndex = 1
       /\ resetAllRecords(FALSE) => UNCHANGED vars
       /\ \A chars \in StoreChars, finalTime \in StoreTimes :
             (FinishAttempt(chars, finalTime, TRUE) /\ ~typingStats[language].present) =>
                 /\ typingStats'[language].playCount = 1
                 /\ Len(typingStats'[language].records) = 1
                 /\ typingStats'[language].records[1].playIndex = 1]_vars

\* the entry of the current language removed after a saved attempt (the
\* input is still disabled), another language's entry being kept
C19_Witness ==
    /\ inputDisabled
    /\ saveCalls = 1
    /\ ~typingStats[language].present
    /\ statsShown = NoStats
    /\ \E l \in Languages \ { language } : typingStats[l] = WellFormedEntry

\* C20: when setItem fails in saveRecord, the call ends with the error, and
\* the stored values and the ranking shown are what they were before the
\* attempt.
C20_FailedWriteChangesNothingSeen ==
    [][\A chars \in StoreChars, finalTime \in StoreTimes :
          (/\ FinishAttempt(chars, finalTime, FALSE)
           /\ typingStats[language].form \in { "absent", "object", "falsy", "array" }) =>
              /\ storeError' = "QuotaExceededError"
              /\ typingStats' = typingStats
              /\ statsShown' = statsShown]_vars

\* a failed write over a stored entry of one record, the ranking still
\* showing that record
C20_Witness ==
    /\ storeError = "QuotaExceededError"
    /\ saveCalls = 1
    /\ typingStats[language] = WellFormedEntry
    /\ statsShown = StatsOf(WellFormedEntry)
    /\ Len(statsShown.list) = 1

(***************************************************************************)
(* Key events apart from the text they enter: SpecInput                    *)
(***************************************************************************)
\* The input's value changes when a key goes down or text is dropped into
\* it; the only listener that runs handleInput is on keyup.  The value is v
\* from now on and no handler has run.
TextInserted(v) ==
    /\ ~inputDisabled
    /\ v # inputValue
    /\ inputValue' = v
    /\ UNCHANGED << language, stage, startTime, timerInterval, currentQuote,
                    isFinished, totalCharsTyped, allQuotes, dailyQuotes, timerText,
                    inputDisabled, quoteDisplay, typingLanguage, typingStats, now,
                    initPc, saveCalls, attempts, statsShown, storeError >>
    /\ UNCHANGED sessionHistory
    /\ UNCHANGED schedVars

\* keyup of a key other than Enter, the input holding what it holds
KeyUpKey ==
    /\ ~inputDisabled
    /\ handleInput(FALSE, inputValue)
    /\ UNCHANGED << language, allQuotes, dailyQuotes, typingLanguage, now, initPc,
                    sessionTriple >>
    /\ UNCHANGED schedVars

NextInput ==
    \/ LoadSucceeds
    \/ RestartClick
    \/ \E v \in {WrongText, currentQuote} : TextInserted(v)
    \/ KeyUpKey
    \/ KeyUpEnter
    \/ TimerTick
    \/ ClockAdvance
    \/ \E newLang \in Languages, confirmed \in BOOLEAN : changeLanguage(newLang, confirmed)

SpecInput == Init /\ [][NextInput]_vars

\* the record saveRecord has just pushed, when the list still holds it
NewestRecords ==
    { r \in { RecordsOf(language)[i] : i \in 1..Len(RecordsOf(language)) } :
         r.playIndex = typingStats[language].playCount }

\* C21: a timer tick changes only the timer text; the interval is active
\* only in an unfinished session whose timer was started, so no tick runs
\* after stopTimer or resetGame; and the duration saveRecord records is the
\* text stopTimer writes at the completion, whatever the ticks wrote before.
C21_TicksOnlyRefreshTheTimer ==
    /\ [](timerInterval => (~isFinished /\ startTime # NullTime))
    /\ [][/\ TimerTick =>
                /\ timerInterval
                /\ UNCHANGED << stage, isFinished, totalCharsTyped, startTime,
                                timerInterval, currentQuote, dailyQuotes, allQuotes,
                                typingStats, saveCalls, inputValue, language >>
          /\ RestartClick => ~timerInterval'
          /\ saveCalls' # saveCalls =>
                /\ ~timerInterval'
                /\ timerText' = ToFixed2(now - startTime')
                /\ NewestRecords' # { }
                /\ \A r \in NewestRecords' : r.duration = timerText']_vars

\* a record whose duration is 1.00 s while the last tick of the session
\* wrote 0.00
C21_Witness ==
    /\ isFinished
    /\ saveCalls = 1
    /\ startTime = FirstNow
    /\ now = FirstNow + ClockStep
    /\ timerText = 100
    /\ RecordsOf(language)[1].duration = 100

\* C22: whenever saveRecord runs, STATE.startTime is non-null, set by
\* startTimer since the last resetGame, and the recorded duration is the
\* time of the completion minus that start time, for every daily triple,
\* one whose first passage is the empty string included.
C22_TimerStartedInSavedSession ==
    [][saveCalls' # saveCalls =>
          /\ startTime' # NullTime
          /\ \A r \in NewestRecords' : r.duration = ToFixed2(now - startTime')]_vars

\* the lengths of the first n passages of the triple added up
RECURSIVE SumOfLengths(_, _)
SumOfLengths(triple, n) ==
    IF n = 0 THEN 0 ELSE SumOfLengths(triple, n - 1) + Len(triple[n])

\* C23: STATE.totalCharsTyped is the sum of the lengths of the passages of
\* the stages completed in the session (0 after resetGame, and 0 while no
\* passage was selected and the passage is empty); in a finished session it
\* is the sum of the lengths of the three passages, and the wpm of the
\* record saved is computed from that count.
C23_CountIsSumOfCompletedStages ==
    /\ stage \in 0..TOTAL_STAGES
    /\ sessionTriple = Undefined => totalCharsTyped = 0
    /\ sessionTriple # Undefined =>
          totalCharsTyped = SumOfLengths(sessionTriple, stage)
    /\ (isFinished /\ sessionTriple # Undefined) =>
          /\ totalCharsTyped = SumOfLengths(sessionTriple, TOTAL_STAGES)
          /\ NewestRecords # { }
          /\ \A r \in NewestRecords :
                r.wpm = JsonNumber(WpmOf(SumOfLengths(sessionTriple, TOTAL_STAGES),
                                         r.duration))

\* the English triple of the epoch day, "de", "" and "ab", completed in
\* 1.00 s: 4 characters, 48 wpm
C23_Witness ==
    /\ isFinished
    /\ sessionTriple = << "de", "", "ab" >>
    /\ totalCharsTyped = 4
    /\ timerText = 100
    /\ \E r \in NewestRecords : r.wpm = 48000

\* the stage changes only by a reset to 0 or by an Enter keyup with the
\* input equal to the passage, which adds one; a session is finished
\* exactly at stage 3
StageAdvancesOnMatch ==
    /\ [](stage \in 0..TOTAL_STAGES /\ (isFinished <=> stage = TOTAL_STAGES))
    /\ [][stage' # stage =>
             \/ stage' = 0
             \/ /\ KeyUpEnter
                /\ ~isFinished
                /\ inputValue = currentQuote
                /\ stage' = stage + 1]_vars

\* an Enter keyup with the input differing from the passage
RejectedSubmission == KeyUpEnter /\ inputValue # currentQuote

\* C24 as stated: the stage advances by one only on an Enter submission
\* equal to the passage; a submission that differs leaves stage,
\* totalCharsTyped, isFinished, startTime and the record store unchanged;
\* isFinished holds exactly when the stage is 3, and the stage is in 0..3.
C24_RejectedSubmissionChangesNothing ==
    /\ StageAdvancesOnMatch
    /\ [][RejectedSubmission =>
             UNCHANGED << stage, totalCharsTyped, isFinished, startTime,
                          typingStats >>]_vars

\* C24 as amended: the stage advances by one only on an Enter submission
\* equal to the passage; a submission that differs leaves stage,
\* totalCharsTyped, isFinished and the record store unchanged, and leaves
\* startTime unchanged unless the session is at stage 0 with no start time
\* and a non-empty input, when handleInput starts the timer before the
\* submission is validated; isFinished holds exactly when the stage is 3,
\* and the stage is in 0..3.
C24_RejectedSubmissionOnlyStartsTimer ==
    /\ StageAdvancesOnMatch
    /\ [][RejectedSubmission =>
             /\ UNCHANGED << stage, totalCharsTyped, isFinished, typingStats >>
             /\ startTime' = IF stage = 0 /\ startTime = NullTime /\ inputValue # ""
                                THEN now ELSE startTime
             /\ timerInterval' = (timerInterval \/ startTime' # startTime)]_vars

\* the timer running at stage 0 with the rejected text in the input
C24_Witness ==
    /\ initPc = "ready"
    /\ stage = 0
    /\ totalCharsTyped = 0
    /\ inputValue = WrongText
    /\ currentQuote # WrongText
    /\ timerInterval
    /\ startTime = LastNow

(***************************************************************************)
(* Ties in the record store                                                *)
(***************************************************************************)
\* C25: records of equal percentile are ranked in the order of their
\* attempts: a new record is ranked after every stored record of its
\* percentile, and when five records are stored and the new percentile
\* equals the fifth's, the new record is the one left out, the play count
\* growing by one all the same.
C25_TiesFavourEarlierAttempts ==
    /\ [](\A lang \in Languages :
             \A i, j \in 1..Len(RecordsOf(lang)) :
                (i < j /\ RecordsOf(lang)[i].percentile = RecordsOf(lang)[j].percentile)
                   => RecordsOf(lang)[i].playIndex < RecordsOf(lang)[j].playIndex)
    /\ [][\A chars \in StoreChars, finalTime \in StoreTimes :
             AttemptCompletes(chars, finalTime) =>
                LET old == RecordsOf(language)
                    kept == typingStats'[language].records
                    p == AttemptPercentile(chars, finalTime)
                    count == typingStats'[language].playCount
                IN  /\ count = LoadData(typingStats[language]).playCount + 1
                    /\ \A i, j \in 1..Len(kept) :
                          (kept[i].playIndex = count /\ j # i /\ kept[j].percentile = p)
                             => j < i
                    /\ (Len(old) = 5 /\ old[5].percentile = p) => kept = old]_vars

\* the sixth attempt ties with the fifth record and is the one left out
C25_Witness ==
    /\ typingStats[language].playCount = 6
    /\ Len(RecordsOf(language)) = 5
    /\ RecordsOf(language)[5].percentile = AttemptPercentile(totalCharsTyped, timerText)
    /\ RecordsOf(language)[4].percentile = RecordsOf(language)[5].percentile
    /\ \A i \in 1..5 : RecordsOf(language)[i].playIndex < 6

(***************************************************************************)
(* The three passages of a day                                             *)
(***************************************************************************)
\* C26: for a pool of three passages or more, the three passages selected
\* for a day come from three different pool indices, also on a day whose
\* stream positions lie in two consecutive decks.  (The passages of a
\* sample pool differ from one another, so equal passages are equal
\* indices.)
C26_DailyPassagesDistinct ==
    (schedPc = "idle" /\ Len(allQuotes) >= 3 /\ Len(dailyQuotes) = TOTAL_STAGES) =>
        \A i, j \in 1..TOTAL_STAGES : i # j => dailyQuotes[i] # dailyQuotes[j]

====
